---- MODULE Spec2Model ----
(***************************************************************************)
(* Scheduled-report delivery pipeline of the Veeam dashboard:              *)
(*   SchedulerService      (scheduler-service.ts, shipped in install.sh)   *)
(*   PlaywrightPdfService  (server/pdf-service.ts)                         *)
(*   DatabaseStorage       (server/storage.ts)                             *)
(*   the report-schedule routes (server/routes.ts)                         *)
(* The event loop is single threaded: one action is one continuation,      *)
(* from the point where an awaited call settles up to the next await.      *)
(***************************************************************************)
EXTENDS Naturals, Integers, Sequences, FiniteSets, TLC

VARIABLES
    emailConfigured,     \* emailService.isConfigured(), fixed at construction
    scheduleRecipients,  \* schedule id -> sequence of recipient e-mails
    executingSchedules,  \* SchedulerService.executingSchedules
    scheduleRuns,        \* the schedule_runs table
    execs,               \* the executeSchedule / executeManually calls in progress
    ticks,               \* the checkAndExecuteSchedules calls in progress
    nExecs,              \* how many executions have been started
    nTicks,              \* how many times the cron job has fired
    lastSettled,         \* the execution that settled last, as it ended
    rejected,            \* the executions whose promise rejected
    tickErrors,          \* how many checkAndExecuteSchedules calls rejected
    faults,              \* how many calls to the database, the browser or the
                         \* mail service have failed so far
    attempts,            \* schedule id -> how many times executeSchedule has
                         \* been called for it (tick launches and manual runs)
    mSchedule,           \* matcher check: the schedule given to shouldScheduleRun
    mNow,                \* matcher check: the instant given to shouldScheduleRun
    mDate,               \* matcher check: the calendar date mNow was read on
    mDone,               \* matcher check: shouldScheduleRun has been called
    mResult,             \* matcher check: what shouldScheduleRun returned
    browser,             \* PlaywrightPdfService.browser: 0 (null) or the engine
    launches,            \* how many times chromium.launch has been called
    calls,               \* the generatePdf / generateScreenshot calls in progress
    nCalls,              \* how many such calls have been started
    lastCall,            \* the call that ended last, as it ended
    rEnv,                \* one-call check: what the browser and the dashboard do
    rDone,               \* one-call check: generatePdf has been called
    rOut,                \* one-call check: what the call did
    cronJob,             \* SchedulerService.cronJob: 0 (null) or the task
    jobs,                \* the cron tasks scheduled and not stopped
    nJobs,               \* how many times cron.schedule has been called
    starts,              \* how many times start() has been called
    stops,               \* how many times stop() has been called
    routeSchedules,      \* the ids of the rows of the report_schedules table
    requests,            \* the POST / PATCH handlers in progress
    nRequests,           \* how many requests have been received
    lastResponse         \* the response sent last

schedVars == <<emailConfigured, scheduleRecipients, executingSchedules,
               scheduleRuns, execs, ticks, nExecs, nTicks, lastSettled, rejected,
               tickErrors, faults, attempts>>
matchVars == <<mSchedule, mNow, mDate, mDone, mResult>>
pdfVars == <<browser, launches, calls, nCalls, lastCall>>
renderVars == <<rEnv, rDone, rOut>>
cronVars == <<cronJob, jobs, nJobs, starts, stops>>
routeVars == <<routeSchedules, requests, nRequests, lastResponse>>
auxVars == <<renderVars, cronVars, routeVars>>
vars == <<schedVars, matchVars, pdfVars, auxVars>>

\* SQL NULL in an integer column (dayOfWeek, dayOfMonth)
NULL == 0 - 1

(***************************************************************************)
(* Matcher                                                                 *)
(***************************************************************************)

\* a bug the matcher could have: the minute is not compared
shouldScheduleRunIgnoringMinute(schedule, hour, minute, dayOfWeek, dayOfMonth) ==
    IF schedule.hour # hour
    THEN FALSE
    ELSE CASE schedule.frequency = "daily"   -> TRUE
           [] schedule.frequency = "weekly"  -> schedule.dayOfWeek = dayOfWeek
           [] schedule.frequency = "monthly" -> schedule.dayOfMonth = dayOfMonth
           [] OTHER -> FALSE

\* a bug the matcher could have: a schedule whose minute has passed within
\* the hour is caught up
shouldScheduleRunCatchingUp(schedule, hour, minute, dayOfWeek, dayOfMonth) ==
    IF schedule.hour # hour \/ schedule.minute > minute
    THEN FALSE
    ELSE CASE schedule.frequency = "daily"   -> TRUE
           [] schedule.frequency = "weekly"  -> schedule.dayOfWeek = dayOfWeek
           [] schedule.frequency = "monthly" -> schedule.dayOfMonth = dayOfMonth
           [] OTHER -> FALSE

shouldScheduleRun(schedule, hour, minute, dayOfWeek, dayOfMonth) ==
    IF schedule.hour # hour \/ schedule.minute # minute
    THEN FALSE
    ELSE CASE schedule.frequency = "daily"   -> TRUE
           [] schedule.frequency = "weekly"  -> schedule.dayOfWeek = dayOfWeek
           [] schedule.frequency = "monthly" -> schedule.dayOfMonth = dayOfMonth
           [] OTHER -> FALSE

\* the instants and the schedules the matcher is tried on
MatchHours == {8, 9}
MatchMinutes == {0, 1}
MatchDaysOfWeek == {1, 2}
MatchDaysOfMonth == {30, 31}
MatchFrequencies == {"daily", "weekly", "monthly", "yearly"}

MatchSchedules ==
    [frequency : MatchFrequencies, hour : MatchHours, minute : MatchMinutes,
     dayOfWeek : MatchDaysOfWeek \cup {NULL},
     dayOfMonth : MatchDaysOfMonth \cup {NULL}, isActive : BOOLEAN]

MatchInstants ==
    [hour : MatchHours, minute : MatchMinutes,
     dayOfWeek : MatchDaysOfWeek, dayOfMonth : MatchDaysOfMonth]

NoInstant == [hour |-> 0, minute |-> 0, dayOfWeek |-> 0, dayOfMonth |-> 1]
NoSchedule == [frequency |-> "daily", hour |-> 0, minute |-> 0,
               dayOfWeek |-> NULL, dayOfMonth |-> NULL, isActive |-> TRUE]

\* the calendar of the business timezone: a date is [month, day, leap] with
\* day within the month
DaysInMonth(month, leap) ==
    IF month = 2 THEN (IF leap THEN 29 ELSE 28)
    ELSE IF month \in {4, 6, 9, 11} THEN 30
    ELSE 31

\* a bug the tick could have: the last day of a month is read as day 31
getDateLastDayAs31(date) ==
    IF date.day = DaysInMonth(date.month, date.leap) THEN 31 ELSE date.day

\* nowBrasilia.getDate()
getDate(date) == date.day

MatchMonths == {1, 2, 4}
MatchLateDays == 28..31
MatchDates ==
    {d \in [month : MatchMonths, day : MatchLateDays, leap : BOOLEAN] :
        d.day <= DaysInMonth(d.month, d.leap)}
NoDate == [month |-> 1, day |-> 1, leap |-> FALSE]

\* the schedules tried against the ends of the months
MonthlySchedules ==
    [frequency : {"monthly", "daily"}, hour : {8}, minute : MatchMinutes,
     dayOfWeek : {NULL}, dayOfMonth : MatchLateDays, isActive : {TRUE}]

\* what a tick reads on a date, at 08:00 or 08:01
InstantsOn(date) ==
    [hour : {8}, minute : MatchMinutes, dayOfWeek : {1},
     dayOfMonth : {getDate(date)}]

Match ==
    /\ ~mDone
    /\ mDone' = TRUE
    /\ mResult' = shouldScheduleRun(mSchedule, mNow.hour, mNow.minute,
                                    mNow.dayOfWeek, mNow.dayOfMonth)
    /\ UNCHANGED <<mSchedule, mNow, mDate, schedVars, pdfVars, auxVars>>

(***************************************************************************)
(* Messages: a message is the sequence of its words, so that "contains"    *)
(* is a computation on the text the code produces.                         *)
(***************************************************************************)

NoMsg == <<>>
MsgEmailNotConfigured ==
    <<"Email", "service", "not", "configured.", "Please", "set", "M365",
      "environment", "variables.">>
MsgNoRecipients == <<"No", "recipients", "configured", "for", "this", "schedule">>
MsgScheduleNotFound == <<"Agendamento", "não", "encontrado">>
MsgReportSent == <<"Relatório", "enviado", "com", "sucesso">>
MsgLoginFormNotFound ==
    <<"Login", "form", "not", "found", "-", "check", "if", "the", "app", "is",
      "running", "correctly">>
MsgLoginCheckCredentials == <<"Login", "failed", "-", "check", "credentials">>
MsgLoginStuck == <<"Login", "failed", "-", "stuck", "at", "/login">>
MsgDataNotAvailable ==
    <<"Report", "page", "shows", "error", "-", "data", "not", "available",
      "for", "this", "client">>
MsgReportTimeout ==
    <<"Report", "failed", "to", "load", "within", "timeout", "-", "check", "if",
      "all", "API", "endpoints", "are", "responding">>
MsgSendFailed == <<"Failed", "to", "send", "email:", "Forbidden", "-", "denied">>
\* texts that come from the libraries, not from this repository
MsgDatabase == <<"connection", "terminated", "unexpectedly">>
MsgPlaywright == <<"Target", "page,", "context", "or", "browser", "has", "been", "closed">>

Contains(msg, words) ==
    \E i \in 1..(Len(msg) + 1) :
        /\ i + Len(words) - 1 <= Len(msg)
        /\ SubSeq(msg, i, i + Len(words) - 1) = words

(***************************************************************************)
(* Repository (DatabaseStorage)                                            *)
(***************************************************************************)

\* the report_schedules table; it is read-only to the scheduler
reportSchedules ==
    [s \in {"s1", "s2", "s3"} |->
        CASE s = "s1" -> [frequency |-> "daily", hour |-> 8, minute |-> 0,
                          dayOfWeek |-> NULL, dayOfMonth |-> NULL, isActive |-> TRUE]
          [] s = "s2" -> [frequency |-> "weekly", hour |-> 8, minute |-> 0,
                          dayOfWeek |-> 1, dayOfMonth |-> NULL, isActive |-> TRUE]
          [] s = "s3" -> [frequency |-> "daily", hour |-> 8, minute |-> 0,
                          dayOfWeek |-> NULL, dayOfMonth |-> NULL, isActive |-> FALSE]]

ScheduleIds == DOMAIN reportSchedules
\* an id no schedule has
MissingId == "s9"

getReportScheduleById(id) ==
    IF id \in ScheduleIds THEN {id} ELSE {}

\* every row, whatever its isActive
getAllSchedules == <<"s1", "s2", "s3">>

\* the rows with isActive = true, in the order of the table
getActiveSchedules ==
    SelectSeq(<<"s1", "s2", "s3">>, LAMBDA s : reportSchedules[s].isActive)

getScheduleRecipients(id) == scheduleRecipients[id]

createScheduleRun(table, id, run) ==
    table \cup {[id |-> id, scheduleId |-> run.scheduleId, status |-> run.status,
                 recipientCount |-> run.recipientCount, errorMessage |-> NoMsg,
                 completedAt |-> FALSE]}

\* a bug the repository could have: an update writes the status alone
updateScheduleRunStatusOnly(table, id, data) ==
    {IF r.id = id THEN [r EXCEPT !.status = data.status] ELSE r : r \in table}

\* a bug the execution could have: an update to failed starts another
\* attempt, which creates a Run of its own
updateScheduleRunAndRetry(table, id, data) ==
    LET updated == {IF r.id = id
                    THEN [f \in DOMAIN r |-> IF f \in DOMAIN data THEN data[f] ELSE r[f]]
                    ELSE r : r \in table}
    IN  IF data.status = "failed"
        THEN UNION {createScheduleRun(updated, 0 - r.id,
                        [scheduleId |-> r.scheduleId, status |-> "running",
                         recipientCount |-> 0]) : r \in {q \in updated : q.id = id}}
             \cup updated
        ELSE updated

updateScheduleRun(table, id, data) ==
    {IF r.id = id
     THEN [f \in DOMAIN r |-> IF f \in DOMAIN data THEN data[f] ELSE r[f]]
     ELSE r : r \in table}

RunOf(e) == {r \in scheduleRuns : r.id = e}

(***************************************************************************)
(* Rendering Orchestrator (PlaywrightPdfService).  What the browser and    *)
(* the dashboard do during one call is the call's environment, env:        *)
(*   launch, newContext, newPage, home, fill, navigate, pdf, pageClose,    *)
(*   contextClose : "ok" or "throw"                                        *)
(*   landing : "dashboard" (already logged in) or "login"                  *)
(*   form    : "present" or "missing"                                      *)
(*   login   : "redirect", "rejected" or "timeout"                         *)
(*   poll    : what the i-th readiness check sees: "ready", "error"        *)
(*             (the data-error marker) or "loading"; "loading" once the    *)
(*             sequence is used up                                         *)
(***************************************************************************)

maxWaitTime == 60000
checkInterval == 2000

Thrown(msg) == [ok |-> FALSE, error |-> msg]
Returned == [ok |-> TRUE, error |-> NoMsg]

authenticateAndNavigate(env) ==
    IF env.home = "throw" THEN Thrown(MsgPlaywright)
    ELSE IF env.landing # "dashboard" /\ env.form = "missing"
         THEN Thrown(MsgLoginFormNotFound)
    ELSE IF env.landing # "dashboard" /\ env.fill = "throw"
         THEN Thrown(MsgPlaywright)
    \* the race's rejection, "Login failed - check credentials" or the
    \* timeout, is caught and replaced when the page is not on /dashboard
    ELSE IF env.landing # "dashboard" /\ env.login # "redirect"
         THEN Thrown(MsgLoginStuck)
    ELSE IF env.navigate = "throw" THEN Thrown(MsgPlaywright)
    ELSE Returned

\* why the login of authenticateAndNavigate fails: the form never appeared
\* ("form"), the error message of the dashboard was shown ("rejected"),
\* neither the redirect nor the error message came in time ("timeout");
\* "none" when the login does not fail for one of these
LoginFailure(env) ==
    IF env.home = "throw" \/ env.landing = "dashboard" THEN "none"
    ELSE IF env.form = "missing" THEN "form"
    ELSE IF env.fill = "throw" THEN "none"
    ELSE IF env.login \in {"rejected", "timeout"} THEN env.login
    ELSE "none"

PollAt(env, i) == IF i <= Len(env.poll) THEN env.poll[i] ELSE "loading"

\* how many readiness checks the budget allows
MaxChecks == maxWaitTime \div checkInterval

\* a bug the loop could have: the flag is checked once more when the budget
\* is used up
RECURSIVE ReadinessLoopOneMore(_, _, _)
ReadinessLoopOneMore(env, elapsed, checks) ==
    IF ~(elapsed <= maxWaitTime)
    THEN [ready |-> FALSE, sawMarker |-> FALSE, checks |-> checks, elapsed |-> elapsed]
    ELSE IF PollAt(env, checks + 1) = "ready"
         THEN [ready |-> TRUE, sawMarker |-> FALSE, checks |-> checks + 1,
               elapsed |-> elapsed]
    ELSE IF PollAt(env, checks + 1) = "error"
         THEN [ready |-> FALSE, sawMarker |-> TRUE, checks |-> checks + 1,
               elapsed |-> elapsed]
    ELSE ReadinessLoopOneMore(env, elapsed + checkInterval, checks + 1)

\* the readiness loop: [ready, sawMarker, checks, elapsed]
RECURSIVE ReadinessLoop(_, _, _)
ReadinessLoop(env, elapsed, checks) ==
    IF ~(elapsed < maxWaitTime)
    THEN [ready |-> FALSE, sawMarker |-> FALSE, checks |-> checks, elapsed |-> elapsed]
    ELSE IF PollAt(env, checks + 1) = "ready"
         THEN [ready |-> TRUE, sawMarker |-> FALSE, checks |-> checks + 1,
               elapsed |-> elapsed]
    ELSE IF PollAt(env, checks + 1) = "error"
         THEN [ready |-> FALSE, sawMarker |-> TRUE, checks |-> checks + 1,
               elapsed |-> elapsed]
    ELSE ReadinessLoop(env, elapsed + checkInterval, checks + 1)

\* the try block of generatePdf
RenderBody(env) ==
    LET auth == authenticateAndNavigate(env)
        loop == ReadinessLoop(env, 0, 0)
    IN  IF ~auth.ok THEN auth
        ELSE IF loop.sawMarker THEN Thrown(MsgDataNotAvailable)
        ELSE IF ~loop.ready THEN Thrown(MsgReportTimeout)
        ELSE IF env.pdf = "throw" THEN Thrown(MsgPlaywright)
        ELSE Returned

\* the finally block: an error thrown by a close replaces the body's outcome
RenderFinally(env, body) ==
    IF env.pageClose = "throw" THEN Thrown(MsgPlaywright)
    ELSE IF env.contextClose = "throw" THEN Thrown(MsgPlaywright)
    ELSE body

\* [ok, error, sawMarker]: the call's outcome and whether a readiness check
\* of the call saw the error marker
generatePdf(env) ==
    IF env.launch = "throw" \/ env.newContext = "throw" \/ env.newPage = "throw"
    THEN [ok |-> FALSE, error |-> MsgPlaywright, sawMarker |-> FALSE]
    ELSE LET out == RenderFinally(env, RenderBody(env))
         IN  [ok |-> out.ok, error |-> out.error,
              sawMarker |-> authenticateAndNavigate(env).ok
                             /\ ReadinessLoop(env, 0, 0).sawMarker]

\* a call in which every step of the browser succeeds and the page is ready
\* at the second check
EnvOk ==
    [launch |-> "ok", newContext |-> "ok", newPage |-> "ok", home |-> "ok",
     landing |-> "login", form |-> "present", fill |-> "ok", login |-> "redirect",
     navigate |-> "ok", poll |-> <<"loading", "ready">>, pdf |-> "ok",
     pageClose |-> "ok", contextClose |-> "ok"]

\* the environments the scheduler's renders meet
RenderEnvs ==
    {[EnvOk EXCEPT !.poll = p, !.pageClose = c] :
        p \in {<<"loading", "ready">>, <<"loading", "error">>},
        c \in {"ok", "throw"}}

(***************************************************************************)
(* PlaywrightPdfService, call by call: generatePdf and generateScreenshot  *)
(* calls running together on the one service object.  What the browser     *)
(* answers at a step is drawn when the step is taken.                      *)
(***************************************************************************)

\* how many generatePdf / generateScreenshot calls a behaviour holds
MaxCalls == 2

\* n readiness checks in a row that find the page loading
Waits(n) == [i \in 1..n |-> "loading"]

\* one failure or one particular answer of the browser at a time
PdfEnvs ==
    {EnvOk}
    \cup {[EnvOk EXCEPT ![f] = "throw"] :
            f \in {"launch", "newContext", "newPage", "home", "fill", "navigate",
                   "pdf", "pageClose", "contextClose"}}
    \cup {[EnvOk EXCEPT !.form = "missing"], [EnvOk EXCEPT !.login = "rejected"],
          [EnvOk EXCEPT !.login = "timeout"], [EnvOk EXCEPT !.landing = "dashboard"],
          [EnvOk EXCEPT !.poll = <<"loading", "error">>],
          [EnvOk EXCEPT !.poll = <<>>]}

\* the answers that differ from EnvOk in the given fields only
EnvsFor(fields) ==
    {e \in PdfEnvs : \A f \in (DOMAIN e) \ fields : e[f] = EnvOk[f]}

LaunchEnvs == EnvsFor({"launch"})
OpenEnvs == EnvsFor({"newContext", "newPage"})
LoginEnvs == EnvsFor({"home", "landing", "form", "fill", "login"})
NavigateEnvs == EnvsFor({"navigate"})
PollEnvs == EnvsFor({"poll"})
CaptureEnvs == EnvsFor({"pdf"})
CloseEnvs == EnvsFor({"pageClose", "contextClose"})

\* the readiness polls at the edge of the budget: the flag is found true by
\* the second check, by the last check the budget allows, only during the
\* wait that follows the last check, or never; or the marker is found
BudgetPolls ==
    {<<"loading", "ready">>, <<"loading", "error">>, <<>>,
     Waits(MaxChecks - 1) \o <<"ready">>, Waits(MaxChecks) \o <<"ready">>,
     Waits(MaxChecks - 1) \o <<"error">>}

\* what one generatePdf call can meet, step by step
OneCallEnvs ==
    [launch : {"ok"}, newContext : {"ok"}, newPage : {"ok"},
     home : {"ok", "throw"}, landing : {"login", "dashboard"},
     form : {"present", "missing"}, fill : {"ok"},
     login : {"redirect", "rejected", "timeout"}, navigate : {"ok", "throw"},
     poll : BudgetPolls, pdf : {"ok", "throw"}, pageClose : {"ok", "throw"},
     contextClose : {"ok"}]

\* the readiness loop of a call that did not get to it
NoLoop == [ready |-> FALSE, sawMarker |-> FALSE, checks |-> 0, elapsed |-> 0]
NoOutcome ==
    [auth |-> Returned, polled |-> FALSE, loop |-> NoLoop,
     call |-> [ok |-> FALSE, error |-> NoMsg, sawMarker |-> FALSE]]

\* one generatePdf call from its first line to its end: what its
\* authenticateAndNavigate did, whether its readiness loop ran and what it
\* counted, and what the call gave its caller
RenderOnce ==
    /\ ~rDone
    /\ rDone' = TRUE
    /\ rOut' = [auth |-> authenticateAndNavigate(rEnv),
                polled |-> authenticateAndNavigate(rEnv).ok,
                loop |-> IF authenticateAndNavigate(rEnv).ok
                         THEN ReadinessLoop(rEnv, 0, 0) ELSE NoLoop,
                call |-> generatePdf(rEnv)]
    /\ UNCHANGED <<rEnv, schedVars, matchVars, pdfVars, cronVars, routeVars>>

PdfKinds == {"pdf", "screenshot"}

\* the states of the Rendering Orchestrator a call is in, in the order of
\* the code: initialize / newContext / newPage, the login of
\* authenticateAndNavigate, its goto of the report, the readiness loop,
\* page.pdf or page.screenshot
AdvanceBackwards(state) ==
    CASE state = "Launching" -> "Authenticating"
      [] state = "Authenticating" -> "Navigating"
      [] state = "Navigating" -> "Authenticating"
      [] state = "PollingReadiness" -> "Capturing"
      [] OTHER -> state

Advance(state) ==
    CASE state = "Launching" -> "Authenticating"
      [] state = "Authenticating" -> "Navigating"
      [] state = "Navigating" -> "PollingReadiness"
      [] state = "PollingReadiness" -> "Capturing"
      [] OTHER -> state

\* a call: engine is the browser instance it opened its context on, launched
\* whether the call itself called chromium.launch; the counters are the
\* contexts and pages it opened and the close calls made on them; thrown
\* and returned count the errors and the buffers that reached the caller
NewCall(id, kind, pc) ==
    [id |-> id, kind |-> kind, pc |-> pc, state |-> "Launching", engine |-> 0,
     launched |-> FALSE, contextsOpened |-> 0, contextCloses |-> 0,
     pagesOpened |-> 0, pageCloses |-> 0, failed |-> FALSE, error |-> NoMsg,
     thrown |-> 0, returned |-> 0]

NoCall == NewCall(0, "none", "none")

InitRenderIdle ==
    /\ rEnv = EnvOk
    /\ rDone = FALSE
    /\ rOut = NoOutcome

InitPdf ==
    /\ InitRenderIdle
    /\ browser = 0
    /\ launches = 0
    /\ calls = {}
    /\ nCalls = 0
    /\ lastCall = NoCall

\* the call settles: it rejects with the error or resolves with the buffer
EndCall(c, rec, out) ==
    /\ calls' = calls \ {c}
    /\ lastCall' = [rec EXCEPT !.pc = "ended",
                               !.state = IF out.ok THEN "Done" ELSE "Failed",
                               !.failed = ~out.ok, !.error = out.error,
                               !.thrown = IF out.ok THEN 0 ELSE 1,
                               !.returned = IF out.ok THEN 1 ELSE 0]

\* the call goes on to its next await
StepCall(c, rec) ==
    /\ calls' = (calls \ {c}) \cup {rec}
    /\ lastCall' = lastCall

\* the try block throws: the catch logs and rethrows, the finally block runs
FailCall(c, msg) ==
    [c EXCEPT !.failed = TRUE, !.error = msg, !.state = "Failed", !.pc = "closing"]

\* a call starts: initialize tests this.browser and, when it is null, calls
\* chromium.launch; otherwise newContext is called on this.browser at once
RenderStart(kind) ==
    /\ nCalls < MaxCalls
    /\ nCalls' = nCalls + 1
    /\ calls' = calls \cup
          {IF browser = 0
           THEN [NewCall(nCalls + 1, kind, "launching") EXCEPT !.launched = TRUE]
           ELSE [NewCall(nCalls + 1, kind, "opening") EXCEPT !.engine = browser]}
    /\ UNCHANGED <<browser, launches, lastCall, schedVars, matchVars, auxVars>>

\* chromium.launch settles: the new engine is assigned to this.browser and
\* newContext is called on it
RenderLaunched(c, env) ==
    /\ c.pc = "launching"
    /\ IF env.launch = "throw"
       THEN /\ EndCall(c, c, Thrown(MsgPlaywright))
            /\ UNCHANGED <<browser, launches>>
       ELSE /\ launches' = launches + 1
            /\ browser' = launches + 1
            /\ StepCall(c, [c EXCEPT !.engine = launches + 1, !.pc = "opening"])
    /\ UNCHANGED <<nCalls, schedVars, matchVars, auxVars>>

\* newContext and newPage settle, outside the try block
RenderOpened(c, env) ==
    /\ c.pc = "opening"
    /\ IF env.newContext = "throw"
       THEN EndCall(c, c, Thrown(MsgPlaywright))
       ELSE IF env.newPage = "throw"
       THEN EndCall(c, [c EXCEPT !.contextsOpened = 1], Thrown(MsgPlaywright))
       ELSE StepCall(c, [c EXCEPT !.contextsOpened = 1, !.pagesOpened = 1,
                                  !.state = Advance(@), !.pc = "authenticating"])
    /\ UNCHANGED <<browser, launches, nCalls, schedVars, matchVars, auxVars>>

\* authenticateAndNavigate up to its last goto
RenderLoggedIn(c, env) ==
    /\ c.pc = "authenticating"
    /\ LET login == authenticateAndNavigate([env EXCEPT !.navigate = "ok"])
       IN  StepCall(c, IF login.ok
                       THEN [c EXCEPT !.state = Advance(@), !.pc = "navigating"]
                       ELSE FailCall(c, login.error))
    /\ UNCHANGED <<browser, launches, nCalls, schedVars, matchVars, auxVars>>

\* the goto of the report page settles
RenderNavigated(c, env) ==
    /\ c.pc = "navigating"
    /\ StepCall(c, IF env.navigate = "throw"
                   THEN FailCall(c, MsgPlaywright)
                   ELSE [c EXCEPT !.state = Advance(@), !.pc = "polling"])
    /\ UNCHANGED <<browser, launches, nCalls, schedVars, matchVars, auxVars>>

\* the readiness loop ends; generateScreenshot neither looks for the error
\* marker nor throws when the page never got ready
RenderPolled(c, env) ==
    /\ c.pc = "polling"
    /\ LET loop == ReadinessLoop(env, 0, 0)
       IN  StepCall(c, IF c.kind = "pdf" /\ loop.sawMarker
                       THEN FailCall(c, MsgDataNotAvailable)
                       ELSE IF c.kind = "pdf" /\ ~loop.ready
                       THEN FailCall(c, MsgReportTimeout)
                       ELSE [c EXCEPT !.state = Advance(@), !.pc = "capturing"])
    /\ UNCHANGED <<browser, launches, nCalls, schedVars, matchVars, auxVars>>

\* page.pdf or page.screenshot settles
RenderCaptured(c, env) ==
    /\ c.pc = "capturing"
    /\ StepCall(c, IF env.pdf = "throw"
                   THEN FailCall(c, MsgPlaywright)
                   ELSE [c EXCEPT !.pc = "closing"])
    /\ UNCHANGED <<browser, launches, nCalls, schedVars, matchVars, auxVars>>

\* the finally block: page.close, then context.close when page.close did
\* not throw
RenderClosed(c, env) ==
    /\ c.pc = "closing"
    /\ EndCall(c, [c EXCEPT !.pageCloses = @ + 1,
                            !.contextCloses =
                                IF env.pageClose = "throw" THEN @ ELSE @ + 1],
               RenderFinally(env, IF c.failed THEN Thrown(c.error) ELSE Returned))
    /\ UNCHANGED <<browser, launches, nCalls, schedVars, matchVars, auxVars>>

NextPdf ==
    \/ \E kind \in PdfKinds : RenderStart(kind)
    \/ \E c \in calls : \E env \in LaunchEnvs : RenderLaunched(c, env)
    \/ \E c \in calls : \E env \in OpenEnvs : RenderOpened(c, env)
    \/ \E c \in calls : \E env \in LoginEnvs : RenderLoggedIn(c, env)
    \/ \E c \in calls : \E env \in NavigateEnvs : RenderNavigated(c, env)
    \/ \E c \in calls : \E env \in PollEnvs : RenderPolled(c, env)
    \/ \E c \in calls : \E env \in CaptureEnvs : RenderCaptured(c, env)
    \/ \E c \in calls : \E env \in CloseEnvs : RenderClosed(c, env)

(***************************************************************************)
(* SchedulerService                                                        *)
(***************************************************************************)

\* how many executions (tick-launched or manual) and how many ticks a
\* behaviour holds
MaxExecs == 2
MaxTicks == 2
\* how many calls to the outside fail in a behaviour
MaxFaults == 2

Fault == faults < MaxFaults /\ faults' = faults + 1
NoFault == faults' = faults

\* the instants (America/Sao_Paulo) at which the cron job fires
TickInstants ==
    {[hour |-> 8, minute |-> 0, dayOfWeek |-> 1, dayOfMonth |-> 30],
     [hour |-> 8, minute |-> 0, dayOfWeek |-> 2, dayOfMonth |-> 31],
     [hour |-> 8, minute |-> 1, dayOfWeek |-> 1, dayOfMonth |-> 30]}

\* the ids executeManually is called with
ManualIds == {"s1", MissingId}

NoResult == [success |-> FALSE, message |-> NoMsg]

\* a call of executeSchedule (origin "tick", through executeScheduleWithLock)
\* or of executeManually (origin "manual"); the Run it creates has the
\* call's id.  renders, sends, updates, releases count the generatePdf and
\* sendReportEmail calls, the updates applied to its Run and the deletions
\* of its id from executingSchedules.
NewExec(id, sched, origin, pc) ==
    [id |-> id, sched |-> sched, origin |-> origin, pc |-> pc,
     created |-> FALSE, recipientEmails |-> <<>>, err |-> NoMsg,
     renders |-> 0, sends |-> 0, sawMarker |-> FALSE,
     updates |-> 0, releases |-> 0, threw |-> FALSE, result |-> NoResult]

NoExec == NewExec(0, "none", "none", "none")

\* a design the lock could have: one lock for all the schedules
AcquireOneLock(executing, id) == executing \cup ScheduleIds

\* executeScheduleWithLock, line 839 and the finally of line 843
AcquireLock(executing, id) == executing \cup {id}
KeepLock(executing, id) == executing
ReleaseLock(executing, id) == executing \ {id}

\* the test of line 813
NoHasCheck(executing, id) == FALSE
\* a design the lock could have: a manual run in progress holds the id too
HeldByManualToo(executing, id) ==
    id \in executing \/ \E x \in execs : x.origin = "manual" /\ x.sched = id
AlreadyExecuting(executing, id) == id \in executing

\* a bug the loop could have: it awaits each execution it launches, so that
\* it is suspended at its first launch
RECURSIVE ScheduleLoopAwaitingEach(_, _, _)
ScheduleLoopAwaitingEach(rows, now, acc) ==
    IF rows = <<>> THEN acc
    ELSE LET id == Head(rows)
         IN  IF AlreadyExecuting(acc.executing, id)
             THEN ScheduleLoopAwaitingEach(Tail(rows), now,
                                           [acc EXCEPT !.skipped = @ \cup {id}])
             ELSE IF shouldScheduleRun(reportSchedules[id], now.hour, now.minute,
                                       now.dayOfWeek, now.dayOfMonth)
             THEN [acc EXCEPT !.executing = AcquireLock(@, id),
                              !.launched = Append(@, id)]
             ELSE ScheduleLoopAwaitingEach(Tail(rows), now, acc)

\* the loop of checkAndExecuteSchedules over the rows fetched, in order:
\* [executing, launched, skipped]; launching a schedule adds its id at once
RECURSIVE ScheduleLoop(_, _, _)
ScheduleLoop(rows, now, acc) ==
    IF rows = <<>> THEN acc
    ELSE LET id == Head(rows)
         IN  IF AlreadyExecuting(acc.executing, id)
             THEN ScheduleLoop(Tail(rows), now,
                               [acc EXCEPT !.skipped = @ \cup {id}])
             ELSE IF shouldScheduleRun(reportSchedules[id], now.hour, now.minute,
                                       now.dayOfWeek, now.dayOfMonth)
             THEN ScheduleLoop(Tail(rows), now,
                               [acc EXCEPT !.executing = AcquireLock(@, id),
                                           !.launched = Append(@, id)])
             ELSE ScheduleLoop(Tail(rows), now, acc)

\* the cron job fires: the instant is read and getActiveSchedules is called
TickStart(now) ==
    /\ nTicks < MaxTicks
    /\ nTicks' = nTicks + 1
    /\ ticks' = ticks \cup {[id |-> nTicks + 1, now |-> now, pc |-> "fetching",
                             launched |-> {}, started |-> {},
                             skipped |-> {}]}
    /\ NoFault
    /\ UNCHANGED <<emailConfigured, attempts, scheduleRecipients, executingSchedules,
                   scheduleRuns, execs, nExecs, lastSettled, rejected, tickErrors,
                   matchVars, pdfVars, auxVars>>

\* getActiveSchedules rejects: the catch of checkAndExecuteSchedules logs it
\* and the call returns
TickFetchFailed(t) ==
    /\ t.pc = "fetching"
    /\ ticks' = ticks \ {t}
    /\ Fault
    /\ UNCHANGED <<emailConfigured, attempts, scheduleRecipients, executingSchedules,
                   scheduleRuns, execs, nExecs, nTicks, lastSettled, rejected,
                   tickErrors, matchVars, pdfVars, auxVars>>

\* line 832: how many rejections reach the tick; Promise.allSettled never
\* rejects, Promise.all would with a rejected execution
PromiseAll(es) == IF es \cap rejected # {} THEN 1 ELSE 0
PromiseAllSettled(es) == 0

\* how many of the launches are of schedule s
Called(launched, s) == Cardinality({i \in 1..Len(launched) : launched[i] = s})

\* getActiveSchedules resolves: the loop runs to its end without suspending,
\* each launched execution running up to its createScheduleRun call; with
\* nothing launched the call returns
TickLoop(t, rows) ==
    /\ t.pc = "fetching"
    /\ LET loop == ScheduleLoop(rows, t.now,
                       [executing |-> executingSchedules, launched |-> <<>>,
                        skipped |-> {}])
           n == Len(loop.launched)
       IN  /\ nExecs + n <= MaxExecs
           /\ nExecs' = nExecs + n
           /\ executingSchedules' = loop.executing
           /\ attempts' = [s \in ScheduleIds |->
                              attempts[s] + Called(loop.launched, s)]
           /\ execs' = execs \cup
                  {NewExec(nExecs + i, loop.launched[i], "tick", "creating") :
                      i \in 1..n}
           /\ ticks' = (ticks \ {t}) \cup
                  {[t EXCEPT !.launched = (nExecs + 1)..(nExecs + n),
                             !.started = {loop.launched[i] : i \in 1..n},
                             !.skipped = loop.skipped,
                             !.pc = "settling"]}
    /\ NoFault
    /\ UNCHANGED <<emailConfigured, scheduleRecipients, scheduleRuns, nTicks,
                   lastSettled, rejected, tickErrors, matchVars, pdfVars, auxVars>>

\* every execution the tick launched has settled (at once when it launched
\* none): the call returns
TickSettled(t) ==
    /\ t.pc = "settling"
    /\ \A x \in execs : x.id \notin t.launched
    /\ ticks' = ticks \ {t}
    /\ tickErrors' = tickErrors + PromiseAllSettled(t.launched)
    /\ NoFault
    /\ UNCHANGED <<emailConfigured, attempts, scheduleRecipients, executingSchedules,
                   scheduleRuns, execs, nExecs, nTicks, lastSettled, rejected,
                   matchVars, pdfVars, auxVars>>

\* what executeManually returns once executeSchedule has settled
ManualReturn(threw, msg) ==
    IF threw THEN [success |-> FALSE, message |-> msg]
    ELSE [success |-> TRUE, message |-> MsgReportSent]

\* what executeManually returns for an id getReportScheduleById does not find
NotFoundReturnSuccess == [success |-> TRUE, message |-> MsgReportSent]
NotFoundReturn == [success |-> FALSE, message |-> MsgScheduleNotFound]

\* a bug executeScheduleWithLock could have: the id is deleted after the
\* await, without a finally, so that a rejection leaves it in the set
SettleWithoutFinally(x, rec, threw, msg) ==
    /\ execs' = execs \ {x}
    /\ rejected' = IF threw THEN rejected \cup {x.id} ELSE rejected
    /\ IF rec.origin = "tick"
       THEN /\ executingSchedules' =
                  IF threw THEN executingSchedules
                  ELSE ReleaseLock(executingSchedules, rec.sched)
            /\ lastSettled' = [rec EXCEPT !.pc = "done", !.threw = threw,
                                          !.releases = IF threw THEN @ ELSE @ + 1]
       ELSE /\ executingSchedules' = executingSchedules
            /\ lastSettled' = [rec EXCEPT !.pc = "done", !.threw = threw,
                                          !.result = ManualReturn(threw, msg)]

\* executeSchedule has settled (threw: it rejected with msg), and its caller
\* goes on: the finally of executeScheduleWithLock, or the return of
\* executeManually.  rec is the call's record as executeSchedule left it.
Settle(x, rec, threw, msg) ==
    /\ execs' = execs \ {x}
    /\ rejected' = IF threw THEN rejected \cup {x.id} ELSE rejected
    /\ IF rec.origin = "tick"
       THEN /\ executingSchedules' = ReleaseLock(executingSchedules, rec.sched)
            /\ lastSettled' = [rec EXCEPT !.pc = "done", !.threw = threw,
                                          !.releases = @ + 1]
       ELSE /\ executingSchedules' = executingSchedules
            /\ lastSettled' = [rec EXCEPT !.pc = "done", !.threw = threw,
                                          !.result = ManualReturn(threw, msg)]

\* the call goes on to its next await
Step(x, rec) ==
    /\ execs' = (execs \ {x}) \cup {rec}
    /\ UNCHANGED <<executingSchedules, lastSettled, rejected>>

\* a bug the execution could have: the error is noted and the steps go on
CatchAndGoOn(rec, msg) == [rec EXCEPT !.err = msg]

\* the catch of executeSchedule: the failed update is called
Catch(rec, msg) == [rec EXCEPT !.err = msg, !.pc = "updFailed"]

\* createScheduleRun rejects: executeSchedule rejects, no Run exists
ExecCreateFailed(x) ==
    /\ x.pc = "creating"
    /\ Fault
    /\ Settle(x, x, TRUE, MsgDatabase)
    /\ UNCHANGED <<emailConfigured, attempts, scheduleRecipients, scheduleRuns, ticks, nExecs,
                   nTicks, tickErrors, matchVars, pdfVars, auxVars>>

\* createScheduleRun resolves; isConfigured is tested, then
\* getScheduleRecipients is called
ExecCreated(x) ==
    /\ x.pc = "creating"
    /\ NoFault
    /\ scheduleRuns' = createScheduleRun(scheduleRuns, x.id,
                           [scheduleId |-> x.sched, status |-> "running",
                            recipientCount |-> 0])
    /\ Step(x, IF ~emailConfigured
               THEN Catch([x EXCEPT !.created = TRUE], MsgEmailNotConfigured)
               ELSE [x EXCEPT !.created = TRUE, !.pc = "recipients"])
    /\ UNCHANGED <<emailConfigured, attempts, scheduleRecipients, ticks, nExecs, nTicks,
                   tickErrors, matchVars, pdfVars, auxVars>>

ExecRecipientsFailed(x) ==
    /\ x.pc = "recipients"
    /\ Fault
    /\ Step(x, Catch(x, MsgDatabase))
    /\ UNCHANGED <<emailConfigured, attempts, scheduleRecipients, scheduleRuns, ticks, nExecs,
                   nTicks, tickErrors, matchVars, pdfVars, auxVars>>

\* getScheduleRecipients resolves; with recipients generatePdf is called
ExecRecipients(x) ==
    /\ x.pc = "recipients"
    /\ NoFault
    /\ LET recipientEmails == getScheduleRecipients(x.sched)
       IN  Step(x, IF Len(recipientEmails) = 0
                   THEN Catch([x EXCEPT !.recipientEmails = recipientEmails],
                              MsgNoRecipients)
                   ELSE [x EXCEPT !.recipientEmails = recipientEmails,
                                  !.renders = @ + 1, !.pc = "rendering"])
    /\ UNCHANGED <<emailConfigured, attempts, scheduleRecipients, scheduleRuns, ticks, nExecs,
                   nTicks, tickErrors, matchVars, pdfVars, auxVars>>

\* generatePdf settles; with the PDF sendReportEmail is called
ExecRendered(x, env) ==
    /\ x.pc = "rendering"
    /\ LET pdf == generatePdf(env)
       IN  /\ IF pdf.ok THEN NoFault ELSE Fault
           /\ Step(x, IF pdf.ok
                      THEN [x EXCEPT !.sawMarker = pdf.sawMarker,
                                     !.sends = @ + 1, !.pc = "sending"]
                      ELSE Catch([x EXCEPT !.sawMarker = pdf.sawMarker], pdf.error))
    /\ UNCHANGED <<emailConfigured, attempts, scheduleRecipients, scheduleRuns, ticks, nExecs,
                   nTicks, tickErrors, matchVars, pdfVars, auxVars>>

ExecSendFailed(x) ==
    /\ x.pc = "sending"
    /\ Fault
    /\ Step(x, Catch(x, MsgSendFailed))
    /\ UNCHANGED <<emailConfigured, attempts, scheduleRecipients, scheduleRuns, ticks, nExecs,
                   nTicks, tickErrors, matchVars, pdfVars, auxVars>>

\* sendReportEmail resolves: the success update is called
ExecSent(x) ==
    /\ x.pc = "sending"
    /\ NoFault
    /\ Step(x, [x EXCEPT !.pc = "updSuccess"])
    /\ UNCHANGED <<emailConfigured, attempts, scheduleRecipients, scheduleRuns, ticks, nExecs,
                   nTicks, tickErrors, matchVars, pdfVars, auxVars>>

\* the success update rejects, changing nothing: the catch calls the failed one
ExecUpdateSuccessFailed(x) ==
    /\ x.pc = "updSuccess"
    /\ Fault
    /\ Step(x, Catch(x, MsgDatabase))
    /\ UNCHANGED <<emailConfigured, attempts, scheduleRecipients, scheduleRuns, ticks, nExecs,
                   nTicks, tickErrors, matchVars, pdfVars, auxVars>>

ExecUpdatedSuccess(x) ==
    /\ x.pc = "updSuccess"
    /\ NoFault
    /\ scheduleRuns' = updateScheduleRun(scheduleRuns, x.id,
                           [status |-> "success",
                            recipientCount |-> Len(x.recipientEmails),
                            completedAt |-> TRUE])
    /\ Settle(x, [x EXCEPT !.updates = @ + 1], FALSE, NoMsg)
    /\ UNCHANGED <<emailConfigured, attempts, scheduleRecipients, ticks, nExecs, nTicks,
                   tickErrors, matchVars, pdfVars, auxVars>>

\* the failed update rejects, changing nothing: executeSchedule rejects
ExecUpdateFailedFailed(x) ==
    /\ x.pc = "updFailed"
    /\ Fault
    /\ Settle(x, x, TRUE, MsgDatabase)
    /\ UNCHANGED <<emailConfigured, attempts, scheduleRecipients, scheduleRuns, ticks, nExecs,
                   nTicks, tickErrors, matchVars, pdfVars, auxVars>>

ExecUpdatedFailed(x) ==
    /\ x.pc = "updFailed"
    /\ NoFault
    /\ scheduleRuns' = updateScheduleRun(scheduleRuns, x.id,
                           [status |-> "failed", errorMessage |-> x.err,
                            completedAt |-> TRUE])
    /\ Settle(x, [x EXCEPT !.updates = @ + 1], FALSE, NoMsg)
    /\ UNCHANGED <<emailConfigured, attempts, scheduleRecipients, ticks, nExecs, nTicks,
                   tickErrors, matchVars, pdfVars, auxVars>>

\* executeManually is called: getReportScheduleById is called
ManualStart(id) ==
    /\ nExecs < MaxExecs
    /\ NoFault
    /\ nExecs' = nExecs + 1
    /\ execs' = execs \cup {NewExec(nExecs + 1, id, "manual", "lookup")}
    /\ UNCHANGED <<emailConfigured, attempts, scheduleRecipients, executingSchedules,
                   scheduleRuns, ticks, nTicks, lastSettled, rejected, tickErrors,
                   matchVars, pdfVars, auxVars>>

\* getReportScheduleById rejects: the catch of executeManually returns
ManualLookupFailed(x) ==
    /\ x.pc = "lookup"
    /\ Fault
    /\ execs' = execs \ {x}
    /\ lastSettled' = [x EXCEPT !.pc = "done", !.threw = TRUE,
                                !.result = ManualReturn(TRUE, MsgDatabase)]
    /\ UNCHANGED <<emailConfigured, attempts, scheduleRecipients, executingSchedules,
                   scheduleRuns, ticks, nExecs, nTicks, rejected, tickErrors,
                   matchVars, pdfVars, auxVars>>

\* getReportScheduleById resolves: without a schedule executeManually returns,
\* with one executeSchedule runs up to its createScheduleRun call
ManualLookup(x) ==
    /\ x.pc = "lookup"
    /\ NoFault
    /\ IF getReportScheduleById(x.sched) = {}
       THEN /\ execs' = execs \ {x}
            /\ lastSettled' = [x EXCEPT !.pc = "done", !.result = NotFoundReturn]
            /\ attempts' = attempts
       ELSE /\ execs' = (execs \ {x}) \cup {[x EXCEPT !.pc = "creating"]}
            /\ lastSettled' = lastSettled
            /\ attempts' = [attempts EXCEPT ![x.sched] = @ + 1]
    /\ UNCHANGED <<emailConfigured, scheduleRecipients, executingSchedules,
                   scheduleRuns, ticks, nExecs, nTicks, rejected, tickErrors,
                   matchVars, pdfVars, auxVars>>

(***************************************************************************)
(* SchedulerService.start and stop.  A cron task calls                     *)
(* checkAndExecuteSchedules every minute from cron.schedule until its      *)
(* stop() is called.                                                       *)
(***************************************************************************)

\* how many start() and stop() calls a behaviour holds
MaxCronCalls == 4

\* the instants at which the tasks fire: none of the schedules matches
CronInstants == {[hour |-> 8, minute |-> 1, dayOfWeek |-> 1, dayOfMonth |-> 30]}

\* a bug stop could have: the field is set to null without stopping the task
LeaveTask(active, job) == active

\* this.cronJob.stop()
StopTask(active, job) == active \ {job}

InitCron ==
    /\ cronJob = 0
    /\ jobs = {}
    /\ nJobs = 0
    /\ starts = 0
    /\ stops = 0

\* the server has called start() once
InitCronStarted ==
    /\ cronJob = 1
    /\ jobs = {1}
    /\ nJobs = 1
    /\ starts = 1
    /\ stops = 0

start ==
    /\ starts + stops < MaxCronCalls
    /\ starts' = starts + 1
    /\ IF cronJob # 0
       THEN UNCHANGED <<cronJob, jobs, nJobs>>
       ELSE /\ nJobs' = nJobs + 1
            /\ cronJob' = nJobs + 1
            /\ jobs' = jobs \cup {nJobs + 1}
    /\ UNCHANGED <<stops, schedVars, matchVars, pdfVars, renderVars, routeVars>>

stop ==
    /\ starts + stops < MaxCronCalls
    /\ stops' = stops + 1
    /\ IF cronJob # 0
       THEN /\ jobs' = StopTask(jobs, cronJob)
            /\ cronJob' = 0
       ELSE UNCHANGED <<cronJob, jobs>>
    /\ UNCHANGED <<starts, nJobs, schedVars, matchVars, pdfVars, renderVars,
                   routeVars>>

\* a task that was not stopped fires
CronFire(job, now) ==
    /\ job \in jobs
    /\ TickStart(now)

(***************************************************************************)
(* The routes POST /api/report-schedules and PATCH                         *)
(* /api/report-schedules/:id (server/routes.ts).  body is the recipients   *)
(* field of the request: given is whether it is an array, list the array.  *)
(***************************************************************************)

\* how many requests a behaviour holds
MaxRequests == 2

\* z.string().email()
IsEmail(email) == email \in {"ana@example.com", "rui@example.com", "eva@example.com"}

RouteBodies ==
    {[given |-> FALSE, list |-> <<>>],
     [given |-> TRUE, list |-> <<>>],
     [given |-> TRUE, list |-> <<"rui@example.com">>],
     [given |-> TRUE, list |-> <<"ana@example.com", "eva@example.com">>],
     [given |-> TRUE, list |-> <<"rui">>]}

\* the ids createReportSchedule gives to the rows it inserts
NewIds == {"n1", "n2"}
RouteIds == {"s1"} \cup NewIds
\* the ids PATCH is called with
PatchIds == {"s1", "n1", MissingId}

AllEmails(list) == \A i \in 1..Len(list) : IsEmail(list[i])

NewRequest(id, op, sched, body, owner, pc) ==
    [id |-> id, op |-> op, sched |-> sched, body |-> body, owner |-> owner,
     todo |-> <<>>, pc |-> pc]

NoResponse == [id |-> 0, status |-> 0]

InitRoutesIdle ==
    /\ routeSchedules = ScheduleIds
    /\ requests = {}
    /\ nRequests = 0
    /\ lastResponse = NoResponse

\* res.status(status).json(...): the handler returns
Respond(q, status) ==
    /\ requests' = requests \ {q}
    /\ lastResponse' = [id |-> q.id, status |-> status]

\* the handler goes on to its next await
RouteStep(q, rec) ==
    /\ requests' = (requests \ {q}) \cup {rec}
    /\ lastResponse' = lastResponse

RouteFrame ==
    UNCHANGED <<emailConfigured, executingSchedules, scheduleRuns, execs, ticks,
                nExecs, nTicks, lastSettled, rejected, tickErrors, attempts,
                matchVars, pdfVars, renderVars, cronVars>>

\* POST: the body is validated and createReportSchedule is called
PostStart(body, valid) ==
    /\ nRequests < MaxRequests
    /\ nRequests' = nRequests + 1
    /\ NoFault
    /\ LET q == NewRequest(nRequests + 1, "post", "none", body, TRUE, "creating")
       IN  IF ~valid THEN Respond(q, 400)
           ELSE IF ~body.given \/ Len(body.list) = 0 THEN Respond(q, 400)
           ELSE IF ~AllEmails(body.list) THEN Respond(q, 400)
           ELSE RouteStep(q, q)
    /\ UNCHANGED <<routeSchedules, scheduleRecipients>>
    /\ RouteFrame

PostCreateFailed(q) ==
    /\ q.op = "post" /\ q.pc = "creating"
    /\ Fault
    /\ Respond(q, 500)
    /\ UNCHANGED <<routeSchedules, scheduleRecipients, nRequests>>
    /\ RouteFrame

\* createReportSchedule resolves: the row exists, without recipients, and
\* addScheduleRecipient is called for the first address
PostCreated(q, id) ==
    /\ q.op = "post" /\ q.pc = "creating"
    /\ id \in NewIds \ routeSchedules
    /\ NoFault
    /\ routeSchedules' = routeSchedules \cup {id}
    /\ scheduleRecipients' = [scheduleRecipients EXCEPT ![id] = <<>>]
    /\ RouteStep(q, [q EXCEPT !.sched = id, !.todo = q.body.list, !.pc = "adding"])
    /\ UNCHANGED nRequests
    /\ RouteFrame

\* addScheduleRecipient rejects: the catch of the handler answers 500
RouteAddFailed(q) ==
    /\ q.pc = "adding"
    /\ Fault
    /\ Respond(q, 500)
    /\ UNCHANGED <<routeSchedules, scheduleRecipients, nRequests>>
    /\ RouteFrame

\* addScheduleRecipient resolves: it is called for the next address, or
\* getScheduleRecipients is called
RouteAdded(q) ==
    /\ q.pc = "adding"
    /\ NoFault
    /\ scheduleRecipients' =
          [scheduleRecipients EXCEPT ![q.sched] = Append(@, Head(q.todo))]
    /\ RouteStep(q, [q EXCEPT !.todo = Tail(@),
                              !.pc = IF Tail(q.todo) = <<>> THEN "reading"
                                     ELSE "adding"])
    /\ UNCHANGED <<routeSchedules, nRequests>>
    /\ RouteFrame

RouteReadFailed(q) ==
    /\ q.pc = "reading"
    /\ Fault
    /\ Respond(q, 500)
    /\ UNCHANGED <<routeSchedules, scheduleRecipients, nRequests>>
    /\ RouteFrame

\* getScheduleRecipients resolves: res.json
RouteRead(q) ==
    /\ q.pc = "reading"
    /\ NoFault
    /\ Respond(q, 200)
    /\ UNCHANGED <<routeSchedules, scheduleRecipients, nRequests>>
    /\ RouteFrame

\* PATCH: getReportScheduleById is called
PatchStart(id, body, owner) ==
    /\ nRequests < MaxRequests
    /\ nRequests' = nRequests + 1
    /\ NoFault
    /\ requests' = requests \cup
          {NewRequest(nRequests + 1, "patch", id, body, owner, "lookup")}
    /\ lastResponse' = lastResponse
    /\ UNCHANGED <<routeSchedules, scheduleRecipients>>
    /\ RouteFrame

PatchLookupFailed(q) ==
    /\ q.pc = "lookup"
    /\ Fault
    /\ Respond(q, 500)
    /\ UNCHANGED <<routeSchedules, scheduleRecipients, nRequests>>
    /\ RouteFrame

\* getReportScheduleById resolves: 404 without a row, 403 for a row of
\* another user, otherwise updateReportSchedule is called
PatchLookedUp(q) ==
    /\ q.pc = "lookup"
    /\ NoFault
    /\ IF q.sched \notin routeSchedules THEN Respond(q, 404)
       ELSE IF ~q.owner THEN Respond(q, 403)
       ELSE RouteStep(q, [q EXCEPT !.pc = "updating"])
    /\ UNCHANGED <<routeSchedules, scheduleRecipients, nRequests>>
    /\ RouteFrame

PatchUpdateFailed(q) ==
    /\ q.pc = "updating"
    /\ Fault
    /\ Respond(q, 500)
    /\ UNCHANGED <<routeSchedules, scheduleRecipients, nRequests>>
    /\ RouteFrame

\* updateReportSchedule resolves: with an array of recipients the addresses
\* are validated and deleteScheduleRecipients is called; without one
\* getScheduleRecipients is called
PatchUpdated(q) ==
    /\ q.pc = "updating"
    /\ NoFault
    /\ IF ~q.body.given THEN RouteStep(q, [q EXCEPT !.pc = "reading"])
       ELSE IF ~AllEmails(q.body.list) THEN Respond(q, 400)
       ELSE RouteStep(q, [q EXCEPT !.pc = "deleting"])
    /\ UNCHANGED <<routeSchedules, scheduleRecipients, nRequests>>
    /\ RouteFrame

PatchDeleteFailed(q) ==
    /\ q.pc = "deleting"
    /\ Fault
    /\ Respond(q, 500)
    /\ UNCHANGED <<routeSchedules, scheduleRecipients, nRequests>>
    /\ RouteFrame

\* deleteScheduleRecipients resolves: addScheduleRecipient is called for the
\* first address, or getScheduleRecipients when the array is empty
PatchDeleted(q) ==
    /\ q.pc = "deleting"
    /\ NoFault
    /\ scheduleRecipients' = [scheduleRecipients EXCEPT ![q.sched] = <<>>]
    /\ RouteStep(q, [q EXCEPT !.todo = q.body.list,
                              !.pc = IF q.body.list = <<>> THEN "reading"
                                     ELSE "adding"])
    /\ UNCHANGED <<routeSchedules, nRequests>>
    /\ RouteFrame

(***************************************************************************)
(* Specifications                                                          *)
(***************************************************************************)

InitMatcherIdle ==
    /\ mSchedule = NoSchedule
    /\ mNow = NoInstant
    /\ mDate = NoDate
    /\ mDone = FALSE
    /\ mResult = FALSE

InitScheduler ==
    /\ emailConfigured \in BOOLEAN
    /\ scheduleRecipients =
         [s \in ScheduleIds |->
              CASE s = "s1" -> <<"ana@example.com", "rui@example.com">>
                [] s = "s2" -> <<>>
                [] OTHER -> <<"eva@example.com">>]
    /\ executingSchedules = {}
    /\ scheduleRuns = {}
    /\ execs = {}
    /\ ticks = {}
    /\ nExecs = 0
    /\ nTicks = 0
    /\ lastSettled = NoExec
    /\ rejected = {}
    /\ tickErrors = 0
    /\ faults = 0
    /\ attempts = [s \in ScheduleIds |-> 0]

Init ==
    InitScheduler /\ InitMatcherIdle /\ InitPdf /\ InitCronStarted /\ InitRoutesIdle

Next ==
    \/ \E now \in TickInstants : TickStart(now)
    \/ \E t \in ticks : TickFetchFailed(t)
    \/ \E t \in ticks : TickLoop(t, getActiveSchedules)
    \/ \E t \in ticks : TickSettled(t)
    \/ \E id \in ManualIds : ManualStart(id)
    \/ \E x \in execs : ManualLookupFailed(x)
    \/ \E x \in execs : ManualLookup(x)
    \/ \E x \in execs : ExecCreateFailed(x)
    \/ \E x \in execs : ExecCreated(x)
    \/ \E x \in execs : ExecRecipientsFailed(x)
    \/ \E x \in execs : ExecRecipients(x)
    \/ \E x \in execs : \E env \in RenderEnvs : ExecRendered(x, env)
    \/ \E x \in execs : ExecSendFailed(x)
    \/ \E x \in execs : ExecSent(x)
    \/ \E x \in execs : ExecUpdateSuccessFailed(x)
    \/ \E x \in execs : ExecUpdatedSuccess(x)
    \/ \E x \in execs : ExecUpdateFailedFailed(x)
    \/ \E x \in execs : ExecUpdatedFailed(x)

Spec == Init /\ [][Next]_vars

\* the cron job alone: no runNow
NextTicks ==
    \/ \E now \in TickInstants : TickStart(now)
    \/ \E t \in ticks : TickFetchFailed(t)
    \/ \E t \in ticks : TickLoop(t, getActiveSchedules)
    \/ \E t \in ticks : TickSettled(t)
    \/ \E x \in execs : ExecCreateFailed(x)
    \/ \E x \in execs : ExecCreated(x)
    \/ \E x \in execs : ExecRecipientsFailed(x)
    \/ \E x \in execs : ExecRecipients(x)
    \/ \E x \in execs : \E env \in RenderEnvs : ExecRendered(x, env)
    \/ \E x \in execs : ExecSendFailed(x)
    \/ \E x \in execs : ExecSent(x)
    \/ \E x \in execs : ExecUpdateSuccessFailed(x)
    \/ \E x \in execs : ExecUpdatedSuccess(x)
    \/ \E x \in execs : ExecUpdateFailedFailed(x)
    \/ \E x \in execs : ExecUpdatedFailed(x)

SpecTicks == Init /\ [][NextTicks]_vars

\* runNow alone: the cron job is stopped
NextManual ==
    \/ \E id \in ManualIds : ManualStart(id)
    \/ \E x \in execs : ManualLookupFailed(x)
    \/ \E x \in execs : ManualLookup(x)
    \/ \E x \in execs : ExecCreateFailed(x)
    \/ \E x \in execs : ExecCreated(x)
    \/ \E x \in execs : ExecRecipientsFailed(x)
    \/ \E x \in execs : ExecRecipients(x)
    \/ \E x \in execs : \E env \in RenderEnvs : ExecRendered(x, env)
    \/ \E x \in execs : ExecSendFailed(x)
    \/ \E x \in execs : ExecSent(x)
    \/ \E x \in execs : ExecUpdateSuccessFailed(x)
    \/ \E x \in execs : ExecUpdatedSuccess(x)
    \/ \E x \in execs : ExecUpdateFailedFailed(x)
    \/ \E x \in execs : ExecUpdatedFailed(x)

SpecManual == Init /\ [][NextManual]_vars

\* the cron job firing on Tuesdays at 08:00, when s1 alone matches, together
\* with runNow calls for s1; the pages close without error
MixedInstants == {[hour |-> 8, minute |-> 0, dayOfWeek |-> 2, dayOfMonth |-> 31]}
MixedIds == {"s1"}
MixedEnvs == {e \in RenderEnvs : e.pageClose = "ok"}

NextMixed ==
    \/ \E now \in MixedInstants : TickStart(now)
    \/ \E t \in ticks : TickFetchFailed(t)
    \/ \E t \in ticks : TickLoop(t, getActiveSchedules)
    \/ \E t \in ticks : TickSettled(t)
    \/ \E id \in MixedIds : ManualStart(id)
    \/ \E x \in execs : ManualLookupFailed(x)
    \/ \E x \in execs : ManualLookup(x)
    \/ \E x \in execs : ExecCreateFailed(x)
    \/ \E x \in execs : ExecCreated(x)
    \/ \E x \in execs : ExecRecipientsFailed(x)
    \/ \E x \in execs : ExecRecipients(x)
    \/ \E x \in execs : \E env \in MixedEnvs : ExecRendered(x, env)
    \/ \E x \in execs : ExecSendFailed(x)
    \/ \E x \in execs : ExecSent(x)
    \/ \E x \in execs : ExecUpdateSuccessFailed(x)
    \/ \E x \in execs : ExecUpdatedSuccess(x)
    \/ \E x \in execs : ExecUpdateFailedFailed(x)
    \/ \E x \in execs : ExecUpdatedFailed(x)

SpecMixed == Init /\ [][NextMixed]_vars

\* the render service alone
SpecPdf == Init /\ [][NextPdf]_vars

\* one generatePdf call, whatever the browser and the dashboard do
InitOneCall ==
    /\ InitScheduler
    /\ emailConfigured = TRUE
    /\ InitMatcherIdle
    /\ browser = 0
    /\ launches = 0
    /\ calls = {}
    /\ nCalls = 0
    /\ lastCall = NoCall
    /\ rEnv \in OneCallEnvs
    /\ rDone = FALSE
    /\ rOut = NoOutcome
    /\ InitCronStarted
    /\ InitRoutesIdle

NextOneCall == RenderOnce

SpecOneCall == InitOneCall /\ [][NextOneCall]_vars

InitIdle ==
    /\ InitMatcherIdle
    /\ InitRenderIdle
    /\ browser = 0
    /\ launches = 0
    /\ calls = {}
    /\ nCalls = 0
    /\ lastCall = NoCall

\* start and stop calls on a scheduler just constructed, with its tasks
\* firing
InitStartStop ==
    /\ InitScheduler
    /\ emailConfigured = TRUE
    /\ InitIdle
    /\ InitCron
    /\ InitRoutesIdle

NextStartStop ==
    \/ start
    \/ stop
    \/ \E job \in jobs : \E now \in CronInstants : CronFire(job, now)
    \/ \E t \in ticks : TickFetchFailed(t)
    \/ \E t \in ticks : TickLoop(t, getActiveSchedules)
    \/ \E t \in ticks : TickSettled(t)

SpecStartStop == InitStartStop /\ [][NextStartStop]_vars

\* the routes on a table in which every schedule has a recipient
InitRoutes ==
    /\ emailConfigured = TRUE
    /\ scheduleRecipients =
         [s \in RouteIds |-> IF s = "s1" THEN <<"ana@example.com">> ELSE <<>>]
    /\ executingSchedules = {}
    /\ scheduleRuns = {}
    /\ execs = {}
    /\ ticks = {}
    /\ nExecs = 0
    /\ nTicks = 0
    /\ lastSettled = NoExec
    /\ rejected = {}
    /\ tickErrors = 0
    /\ faults = 0
    /\ attempts = [s \in ScheduleIds |-> 0]
    /\ InitIdle
    /\ InitCronStarted
    /\ routeSchedules = {"s1"}
    /\ requests = {}
    /\ nRequests = 0
    /\ lastResponse = NoResponse

NextRoutes ==
    \/ \E body \in RouteBodies : \E valid \in BOOLEAN : PostStart(body, valid)
    \/ \E q \in requests : PostCreateFailed(q)
    \/ \E q \in requests : \E id \in NewIds : PostCreated(q, id)
    \/ \E q \in requests : RouteAddFailed(q)
    \/ \E q \in requests : RouteAdded(q)
    \/ \E q \in requests : RouteReadFailed(q)
    \/ \E q \in requests : RouteRead(q)
    \/ \E id \in PatchIds : \E body \in RouteBodies : \E owner \in BOOLEAN :
          PatchStart(id, body, owner)
    \/ \E q \in requests : PatchLookupFailed(q)
    \/ \E q \in requests : PatchLookedUp(q)
    \/ \E q \in requests : PatchUpdateFailed(q)
    \/ \E q \in requests : PatchUpdated(q)
    \/ \E q \in requests : PatchDeleteFailed(q)
    \/ \E q \in requests : PatchDeleted(q)

SpecRoutes == InitRoutes /\ [][NextRoutes]_vars

InitMatcher ==
    /\ InitScheduler
    /\ emailConfigured = TRUE
    /\ mSchedule \in MatchSchedules
    /\ mNow \in MatchInstants
    /\ mDate = NoDate
    /\ InitPdf
    /\ InitCronStarted
    /\ InitRoutesIdle
    /\ mDone = FALSE
    /\ mResult = FALSE

NextMatcher == Match

SpecMatcher == InitMatcher /\ [][NextMatcher]_vars

\* the matcher at the ends of the months
InitMonthly ==
    /\ InitScheduler
    /\ emailConfigured = TRUE
    /\ mSchedule \in MonthlySchedules
    /\ mDate \in MatchDates
    /\ mNow \in InstantsOn(mDate)
    /\ InitPdf
    /\ InitCronStarted
    /\ InitRoutesIdle
    /\ mDone = FALSE
    /\ mResult = FALSE

SpecMonthly == InitMonthly /\ [][NextMatcher]_vars

(***************************************************************************)
(* Properties                                                              *)
(***************************************************************************)

Settled == lastSettled.pc = "done"
TickExecs == {x \in execs : x.origin = "tick"}
Terminal(status) == status \in {"success", "failed"}

\* C1: for every schedule id at most one Run of that schedule has
\* status = running, whatever the interleaving of ticks and runNow calls
C1_AtMostOneRunning ==
    \A s \in ScheduleIds :
        Cardinality({r \in scheduleRuns :
                        r.scheduleId = s /\ r.status = "running"}) <= 1

\* C2: no schedule has two tick-launched executions in progress, and a
\* tick launches nothing for a schedule it found in executingSchedules
C2_TickLaunchesExclusive ==
    /\ \A x, y \in TickExecs : x.sched = y.sched => x = y
    /\ \A t \in ticks : t.skipped \cap t.started = {}
    /\ \A t \in ticks : \A x \in TickExecs :
          x.sched \in t.skipped => x.id \notin t.launched

\* a tick skipped s1 while the execution another tick launched for s1 is
\* still in progress
C2_Witness ==
    \E t \in ticks : \E x \in TickExecs :
        /\ t.pc = "settling"
        /\ "s1" \in t.skipped
        /\ x.sched = "s1"
        /\ x.id \notin t.launched

\* C3: executingSchedules holds exactly the schedules with a tick-launched
\* execution in progress (so it is empty when there is none); an id is not
\* deleted while its execution runs and is deleted exactly once when it has
\* ended, whichever step failed
C3_LockReleasedOnce ==
    /\ executingSchedules = {x.sched : x \in TickExecs}
    /\ \A x \in TickExecs : x.releases = 0
    /\ (Settled /\ lastSettled.origin = "tick") => lastSettled.releases = 1

\* a tick-launched execution rejected (its failed update failed) and its
\* id is gone from the set
C3_Witness ==
    /\ Settled
    /\ lastSettled.origin = "tick"
    /\ lastSettled.threw
    /\ lastSettled.created
    /\ lastSettled.sched \notin executingSchedules

\* C4: an attempt that created a Run and has ended applied exactly one
\* update to it, and the Run is terminal
C4_ExactlyOneTerminalUpdate ==
    (Settled /\ lastSettled.created) =>
        /\ lastSettled.updates = 1
        /\ \A r \in RunOf(lastSettled.id) : Terminal(r.status)

\* C5: runNow returns success = true only if the Run it created ended with
\* status = success
C5_ManualSuccessMeansRunSuccess ==
    (Settled /\ lastSettled.origin = "manual" /\ lastSettled.result.success) =>
        \E r \in RunOf(lastSettled.id) : r.status = "success"

\* C6 as stated: runNow on an id without schedule returns success = false
\* with the message "schedule not found", creates no Run, renders and
\* delivers nothing
C6_NotFoundAsStated ==
    (Settled /\ lastSettled.origin = "manual"
        /\ lastSettled.sched \notin ScheduleIds) =>
        /\ lastSettled.result = [success |-> FALSE,
                                 message |-> <<"schedule", "not", "found">>]
        /\ RunOf(lastSettled.id) = {}
        /\ lastSettled.renders = 0
        /\ lastSettled.sends = 0

\* C6 amended: runNow on an id without schedule returns success = false,
\* with the message "Agendamento não encontrado" when the lookup answered
\* and the lookup's error when it failed; it creates no Run, renders and
\* delivers nothing
C6_NotFound ==
    (Settled /\ lastSettled.origin = "manual"
        /\ lastSettled.sched \notin ScheduleIds) =>
        /\ lastSettled.result =
              [success |-> FALSE,
               message |-> IF lastSettled.threw THEN MsgDatabase
                           ELSE <<"Agendamento", "não", "encontrado">>]
        /\ RunOf(lastSettled.id) = {}
        /\ ~lastSettled.created
        /\ lastSettled.renders = 0
        /\ lastSettled.sends = 0

\* runNow on the missing id has returned after the lookup found nothing
C6_Witness ==
    /\ Settled
    /\ lastSettled.origin = "manual"
    /\ lastSettled.sched = MissingId
    /\ ~lastSettled.threw

\* C7: an execution with the mail service unconfigured or with no recipient
\* calls neither generatePdf nor sendReportEmail and its Run ends failed
\* with the configuration error
C7_PreconditionFailure ==
    (Settled /\ lastSettled.created
        /\ (~emailConfigured \/ Len(scheduleRecipients[lastSettled.sched]) = 0)) =>
        /\ lastSettled.renders = 0
        /\ lastSettled.sends = 0
        /\ \E r \in RunOf(lastSettled.id) :
              /\ r.status = "failed"
              /\ r.errorMessage \in {MsgEmailNotConfigured, MsgNoRecipients}

\* C8: an execution whose readiness check saw the error marker ends with its
\* Run failed and an errorMessage containing "not available"
C8_MarkerFailsRun ==
    (Settled /\ lastSettled.sawMarker) =>
        \E r \in RunOf(lastSettled.id) :
            /\ r.status = "failed"
            /\ Contains(r.errorMessage, <<"not", "available">>)

\* C9: no rejection reaches a tick; the tick launched every schedule that
\* matches its instant and was not executing, and a failed execution leaves
\* the others of the tick in progress or settled on their own
C9_TickSurvivesFailures ==
    /\ tickErrors = 0
    /\ \A t \in ticks : t.pc = "settling" =>
          /\ t.started =
                {s \in ScheduleIds :
                    /\ reportSchedules[s].isActive
                    /\ s \notin t.skipped
                    /\ shouldScheduleRun(reportSchedules[s], t.now.hour,
                           t.now.minute, t.now.dayOfWeek, t.now.dayOfMonth)}
          /\ Cardinality(t.launched) = Cardinality(t.started)
          /\ \A e \in t.launched :
                \/ \E x \in execs : x.id = e
                \/ e \in rejected
                \/ \E r \in RunOf(e) : Terminal(r.status)

\* a tick launched two executions: one rejected, the other ended in success
C9_Witness ==
    \E t \in ticks : \E a, b \in t.launched :
        /\ a \in rejected
        /\ \E r \in RunOf(b) : r.status = "success"

\* C10: shouldScheduleRun is true exactly when hour and minute are equal
\* and the frequency is daily, or weekly with the same day of the week, or
\* monthly with the same day of the month
C10_MatcherExact ==
    mDone =>
        (mResult <=>
            /\ mSchedule.hour = mNow.hour
            /\ mSchedule.minute = mNow.minute
            /\ \/ mSchedule.frequency = "daily"
               \/ mSchedule.frequency = "weekly"
                    /\ mSchedule.dayOfWeek = mNow.dayOfWeek
               \/ mSchedule.frequency = "monthly"
                    /\ mSchedule.dayOfMonth = mNow.dayOfMonth)

\* weekly, Monday 08:00 was evaluated at Monday 08:00 and matched
C10_Witness ==
    /\ mDone
    /\ mResult
    /\ mSchedule = [frequency |-> "weekly", hour |-> 8, minute |-> 0,
                    dayOfWeek |-> 1, dayOfMonth |-> NULL, isActive |-> TRUE]
    /\ mNow.hour = 8
    /\ mNow.minute = 0
    /\ mNow.dayOfWeek = 1

\* C11 as stated: shouldScheduleRun returns false for every schedule with
\* isActive = false, at every instant a tick reads
C11_MatcherFalseWhenInactive ==
    \A t \in ticks : \A s \in ScheduleIds :
        ~reportSchedules[s].isActive =>
            ~shouldScheduleRun(reportSchedules[s], t.now.hour, t.now.minute,
                               t.now.dayOfWeek, t.now.dayOfMonth)

\* C11 amended: no tick launches a schedule with isActive = false, because
\* the loop is given the rows of getActiveSchedules only; shouldScheduleRun
\* does not look at isActive and is true for an inactive schedule whose
\* time matches
C11_InactiveNeverLaunched ==
    /\ \A t \in ticks : \A s \in t.started : reportSchedules[s].isActive
    /\ \A x \in TickExecs : reportSchedules[x.sched].isActive
    /\ \A t \in ticks : \A s \in ScheduleIds :
          shouldScheduleRun([reportSchedules[s] EXCEPT !.isActive = FALSE],
                            t.now.hour, t.now.minute, t.now.dayOfWeek,
                            t.now.dayOfMonth)
          = shouldScheduleRun([reportSchedules[s] EXCEPT !.isActive = TRUE],
                              t.now.hour, t.now.minute, t.now.dayOfWeek,
                              t.now.dayOfMonth)

\* a tick has run its loop at an instant the inactive s3 matches, and has
\* launched s1 but not s3
C11_Witness ==
    \E t \in ticks :
        /\ t.pc = "settling"
        /\ ~reportSchedules["s3"].isActive
        /\ shouldScheduleRun(reportSchedules["s3"], t.now.hour, t.now.minute,
                             t.now.dayOfWeek, t.now.dayOfMonth)
        /\ "s1" \in t.started
        /\ "s3" \notin t.started

\* C12: a monthly schedule whose dayOfMonth is beyond the last day of the
\* tick's month (31 in a 30-day month, 29 to 31 in a February that has
\* fewer days) is not matched: the day is not rounded down
C12_NoRoundDown ==
    (mDone /\ mSchedule.frequency = "monthly"
        /\ mSchedule.dayOfMonth > DaysInMonth(mDate.month, mDate.leap)) =>
        ~mResult

\* monthly, day 31, 08:00 was evaluated at 08:00 of April 30 and did not
\* match
C12_Witness ==
    /\ mDone
    /\ ~mResult
    /\ mSchedule.frequency = "monthly"
    /\ mSchedule.dayOfMonth = 31
    /\ mDate = [month |-> 4, day |-> 30, leap |-> FALSE]
    /\ mSchedule.minute = mNow.minute

\* C13: in the step in which a tick runs its loop and starts waiting, every
\* active schedule that matches the tick's instant and was not executing
\* gets its execution launched, whatever the other executions do
C13_LaunchedInOneStep ==
    [][\A t \in ticks :
          (t.pc = "fetching" /\ \E u \in ticks' : u.id = t.id /\ u.pc = "settling") =>
              \A s \in ScheduleIds :
                  (/\ reportSchedules[s].isActive
                   /\ s \notin executingSchedules
                   /\ shouldScheduleRun(reportSchedules[s], t.now.hour,
                          t.now.minute, t.now.dayOfWeek, t.now.dayOfMonth)) =>
                      /\ s \in executingSchedules'
                      /\ \E x \in execs' \ execs :
                            /\ x.sched = s
                            /\ x.origin = "tick"
                            /\ x.pc = "creating"]_vars

\* of the two executions a tick launched, one has rejected while the other
\* has not yet got its Run created
C13_Witness ==
    \E t \in ticks : \E x \in execs : \E e \in t.launched :
        /\ t.pc = "settling"
        /\ x.id \in t.launched
        /\ x.pc = "creating"
        /\ e \in rejected

\* C14: a tick launches a schedule only when the hour and the minute the
\* tick itself read are the schedule's: a tick that comes after a minute no
\* tick evaluated launches nothing for that minute
C14_NoCatchUp ==
    \A t \in ticks : \A s \in t.started :
        /\ reportSchedules[s].hour = t.now.hour
        /\ reportSchedules[s].minute = t.now.minute

\* the first tick ever comes at 08:01, the 08:00 schedules never ran, and it
\* has run its loop without launching anything
C14_Witness ==
    \E t \in ticks :
        /\ nTicks = 1
        /\ nExecs = 0
        /\ scheduleRuns = {}
        /\ t.pc = "settling"
        /\ t.now.hour = 8
        /\ t.now.minute = 1
        /\ reportSchedules["s1"].minute = 0
        /\ t.started = {}

RunsOfSchedule(s) == {r \in scheduleRuns : r.scheduleId = s}
\* the executeSchedule calls for s whose createScheduleRun call is pending
Creating(s) == {x \in execs : x.sched = s /\ x.pc = "creating"}
\* the executeSchedule calls whose createScheduleRun call rejected
CreateRejected == {e \in rejected : RunOf(e) = {}}

\* C15 as stated: for each schedule the number of Runs created equals the
\* number of tick launches plus manual triggers (of those that are past
\* their createScheduleRun call)
C15_RunsEqualAttempts ==
    \A s \in ScheduleIds :
        Cardinality(RunsOfSchedule(s)) + Cardinality(Creating(s)) = attempts[s]

\* C15 amended: every Run is created by one tick launch or one runNow
\* call, and every launch or call creates one Run at most: for each
\* schedule the number of Runs created is the number of launches and
\* triggers whose createScheduleRun call succeeded; a failed attempt adds
\* no Run
C15_RunsPerAttempt ==
    /\ \A s \in ScheduleIds :
          Cardinality(RunsOfSchedule(s)) + Cardinality(Creating(s)) <= attempts[s]
    /\ Cardinality(scheduleRuns) + Cardinality({x \in execs : x.pc = "creating"})
          + Cardinality(CreateRejected)
          = attempts["s1"] + attempts["s2"] + attempts["s3"]
    /\ CreateRejected = {} => C15_RunsEqualAttempts
    /\ \A r, q \in scheduleRuns : r.id = q.id => r = q
    /\ \A x \in execs : x.created <=> RunOf(x.id) # {}

\* s1 was launched by a tick and triggered by runNow; the Run of one attempt
\* ended failed, the other attempt's ended in success, and s1 has two Runs
C15_Witness ==
    /\ attempts["s1"] = 2
    /\ execs = {}
    /\ Cardinality(RunsOfSchedule("s1")) = 2
    /\ \E r \in RunsOfSchedule("s1") : r.status = "failed"
    /\ \E r \in RunsOfSchedule("s1") : r.status = "success"
    /\ nTicks >= 1
    /\ lastSettled.origin = "manual"

\* C16: in every step of an execution, generatePdf is called only with the
\* Run created and nothing failed, sendReportEmail only when generatePdf
\* has just returned a PDF, the Run becomes success only from the success
\* update that follows the delivery, and once an error was caught neither
\* generatePdf nor sendReportEmail is called again
C16_OrderedShortCircuit ==
    [][/\ \A x \in execs : \A y \in execs' \cup {lastSettled'} :
             x.id = y.id =>
                 /\ y.renders > x.renders =>
                        /\ x.created /\ RunOf(x.id) # {}
                        /\ x.renders = 0 /\ x.sends = 0 /\ x.err = NoMsg
                 /\ y.sends > x.sends =>
                        /\ x.pc = "rendering" /\ x.renders = 1 /\ x.sends = 0
                        /\ x.err = NoMsg /\ y.err = NoMsg
                 /\ x.err # NoMsg =>
                        /\ y.renders = x.renders /\ y.sends = x.sends
                        /\ y.pc \in {"updFailed", "done"}
       /\ \A r \in scheduleRuns' \ scheduleRuns :
             r.status = "success" =>
                 \E x \in execs :
                     /\ x.id = r.id /\ x.pc = "updSuccess"
                     /\ x.renders = 1 /\ x.sends = 1 /\ x.err = NoMsg]_vars

\* an execution whose delivery failed has ended: one render, one delivery,
\* the Run failed with the delivery's error
C16_Witness ==
    /\ Settled
    /\ lastSettled.err = MsgSendFailed
    /\ lastSettled.renders = 1
    /\ lastSettled.sends = 1
    /\ \E r \in RunOf(lastSettled.id) :
          r.status = "failed" /\ r.errorMessage = MsgSendFailed

\* C17: every Run has an errorMessage exactly when it is failed, a
\* completedAt exactly when it is success or failed, and when it is success
\* its recipientCount is the number of addresses the report was sent to
C17_RunShape ==
    \A r \in scheduleRuns :
        /\ r.status \in {"running", "success", "failed"}
        /\ (r.errorMessage # NoMsg) <=> (r.status = "failed")
        /\ r.completedAt <=> Terminal(r.status)
        /\ r.status = "success" =>
              /\ r.recipientCount = Len(getScheduleRecipients(r.scheduleId))
              /\ r.recipientCount > 0
        /\ (Settled /\ lastSettled.id = r.id /\ r.status = "success") =>
              /\ lastSettled.sends = 1
              /\ r.recipientCount = Len(lastSettled.recipientEmails)

\* s1 has a Run that ended in success with its two recipients beside a Run
\* that is still running
C17_Witness ==
    /\ \E r \in scheduleRuns :
          r.status = "success" /\ r.recipientCount = 2 /\ r.completedAt
    /\ \E r \in scheduleRuns :
          r.status = "running" /\ ~r.completedAt /\ r.errorMessage = NoMsg

CallEnded == lastCall.pc = "ended"

\* the place of a state in Launching, Authenticating, Navigating,
\* PollingReadiness, Capturing, Done
StateRank(state) ==
    CASE state = "Launching" -> 1
      [] state = "Authenticating" -> 2
      [] state = "Navigating" -> 3
      [] state = "PollingReadiness" -> 4
      [] state = "Capturing" -> 5
      [] state = "Done" -> 6
      [] OTHER -> 7

\* C18: a call that opened a browsing context and has ended made exactly
\* one close call on it, whichever step failed
C18_ContextClosedOnce ==
    (CallEnded /\ lastCall.contextsOpened = 1) => lastCall.contextCloses = 1

\* C19: chromium.launch gives one engine at most, and all the calls open
\* their contexts on the same engine
C19_OneEngine ==
    /\ launches <= 1
    /\ \A c, d \in calls \cup {lastCall} :
          (c.engine # 0 /\ d.engine # 0) => c.engine = d.engine

\* C20: a call starts in Launching; each of its steps leaves its state as
\* it is, moves it to the next one of Launching, Authenticating,
\* Navigating, PollingReadiness, Capturing, moves it from Capturing to Done,
\* or moves it to Failed; Failed is never left and a call in Done takes no
\* step; a call that ends is in Done with its buffer returned or in Failed
\* with one error thrown, never both
C20_StatesInOrder ==
    [][/\ \A d \in calls' :
             (\A c \in calls : c.id # d.id) => d.state = "Launching"
       /\ \A c \in calls : c.state # "Done" /\ c.pc # "ended"
       /\ \A c \in calls : \A d \in calls' \cup {lastCall'} :
             c.id = d.id =>
                 /\ \/ d.state = c.state
                    \/ d.state = "Failed"
                    \/ StateRank(d.state) = StateRank(c.state) + 1
                 /\ c.state = "Failed" => d.state = "Failed"
                 /\ d.pc = "ended" =>
                       /\ d.state \in {"Done", "Failed"}
                       /\ d.thrown + d.returned = 1
                       /\ d.state = "Done" <=> d.returned = 1
                       /\ d.state = "Failed" <=> d.thrown = 1]_vars

\* a generatePdf call went through login, navigation, polling and capture
\* and returned its buffer
C20_Witness ==
    /\ CallEnded
    /\ lastCall.kind = "pdf"
    /\ lastCall.state = "Done"
    /\ lastCall.returned = 1
    /\ lastCall.pagesOpened = 1
    /\ lastCall.pageCloses = 1

\* C21: a login that fails because the form never appeared, because the
\* credentials were rejected, or because neither the redirect nor the error
\* message came in time, makes authenticateAndNavigate throw, and two
\* failures of different causes never throw the same error (so a rejection
\* is never reported as a timeout is)
C21_AuthFailuresDistinct ==
    (rDone /\ LoginFailure(rEnv) # "none") =>
        /\ ~rOut.auth.ok
        /\ \A other \in OneCallEnvs :
              LoginFailure(other) \notin {"none", LoginFailure(rEnv)} =>
                  authenticateAndNavigate(other).error # rOut.auth.error

ReadyWithinBudget(env) ==
    \E i \in 1..(MaxChecks + 1) :
        /\ PollAt(env, i) = "ready"
        /\ \A j \in 1..(i - 1) : PollAt(env, j) = "loading"

\* C23: a call whose page gets ready before the budget is used up, the last
\* wait included, with no marker before, leaves its readiness loop ready and
\* does not throw the timeout error
C23_ReadyWithinBudgetCaptures ==
    (rDone /\ rOut.polled /\ ReadyWithinBudget(rEnv)) =>
        /\ rOut.loop.ready
        /\ rOut.call.error # MsgReportTimeout

\* C24: a call in Capturing stays there or goes to Done: none of its steps
\* takes it to Failed
C24_CapturingEndsDone ==
    [][\A c \in calls : \A d \in calls' \cup {lastCall'} :
          (c.id = d.id /\ c.state = "Capturing") =>
              d.state \in {"Capturing", "Done"}]_vars

ManualExecs == {x \in execs : x.origin = "manual"}

\* C25: executeManually neither reads nor changes executingSchedules: the
\* start and every step of a manual run leave the set as it is; a manual
\* run whose schedule exists goes on to createScheduleRun whether or not
\* the id is in the set; and a tick's loop launches a matching schedule that
\* is not in the set even while a manual run of it is in progress
C25_ManualIgnoresLock ==
    [][/\ (\E x \in ManualExecs : x \notin execs') =>
              executingSchedules' = executingSchedules
       /\ (\E y \in execs' : y.origin = "manual" /\ y \notin execs) =>
              executingSchedules' = executingSchedules
       /\ \A x \in ManualExecs :
              (x.pc = "lookup" /\ x.sched \in ScheduleIds /\ x \notin execs') =>
                  \/ \E y \in execs' : y.id = x.id /\ y.pc = "creating"
                  \/ lastSettled'.id = x.id /\ lastSettled'.threw
       /\ \A t \in ticks :
              (t.pc = "fetching" /\ \E u \in ticks' : u.id = t.id /\ u.pc = "settling") =>
                  \A x \in ManualExecs :
                      (/\ x.sched \in ScheduleIds
                       /\ x.sched \notin executingSchedules
                       /\ reportSchedules[x.sched].isActive
                       /\ shouldScheduleRun(reportSchedules[x.sched], t.now.hour,
                              t.now.minute, t.now.dayOfWeek, t.now.dayOfMonth)) =>
                          /\ x.sched \in executingSchedules'
                          /\ \E y \in execs' \ execs :
                                y.origin = "tick" /\ y.sched = x.sched]_vars

\* a manual run of s1 was in progress when a tick launched s1: the Runs of
\* both are running and only the tick's launch put s1 in the set
C25_Witness ==
    \E x \in ManualExecs : \E y \in TickExecs :
        /\ x.sched = "s1"
        /\ y.sched = "s1"
        /\ x.id < y.id
        /\ \E r \in RunOf(x.id) : r.status = "running"
        /\ \E r \in RunOf(y.id) : r.status = "running"
        /\ executingSchedules = {"s1"}

\* C26: the lock is per schedule id: when a tick runs its loop, every
\* active schedule that matches and has no tick-launched execution of its
\* own in progress is launched, whichever other ids are in the set, and the
\* set gains the ids of the schedules launched and no other
C26_LockPerSchedule ==
    [][\A t \in ticks : \A u \in ticks' :
          (t.pc = "fetching" /\ u.id = t.id /\ u.pc = "settling") =>
              /\ executingSchedules' = executingSchedules \cup u.started
              /\ \A s \in ScheduleIds :
                    (/\ reportSchedules[s].isActive
                     /\ shouldScheduleRun(reportSchedules[s], t.now.hour,
                            t.now.minute, t.now.dayOfWeek, t.now.dayOfMonth)
                     /\ \A x \in TickExecs : x.sched # s) =>
                        /\ s \in u.started
                        /\ \E y \in execs' \ execs :
                              y.origin = "tick" /\ y.sched = s]_vars

\* one tick launched s1 and s2: both ids are in the set and both Runs are
\* running
C26_Witness ==
    \E t \in ticks : \E x, y \in TickExecs :
        /\ t.started = {"s1", "s2"}
        /\ x.id \in t.launched /\ x.sched = "s1"
        /\ y.id \in t.launched /\ y.sched = "s2"
        /\ \E r \in RunOf(x.id) : r.status = "running"
        /\ \E r \in RunOf(y.id) : r.status = "running"
        /\ executingSchedules = {"s1", "s2"}

\* C27: a Run with status = running belongs to an execution in progress:
\* no execution ends leaving its Run running
C27_RunsReachTerminal ==
    \A r \in scheduleRuns :
        r.status = "running" => \E x \in execs : x.id = r.id

\* C28: in the step in which the createScheduleRun call of a tick-launched
\* execution rejects, no Run is added, the execution ends having called
\* neither generatePdf nor sendReportEmail, its id leaves
\* executingSchedules, and the ticks and the other executions stay as they
\* are; no rejection reaches a tick
C28_CreateFailureContained ==
    [][/\ tickErrors' = 0
       /\ \A x \in TickExecs :
             (/\ x.pc = "creating"
              /\ x \notin execs'
              /\ {r \in scheduleRuns' : r.id = x.id} = {}) =>
                 /\ scheduleRuns' = scheduleRuns
                 /\ execs' = execs \ {x}
                 /\ ticks' = ticks
                 /\ executingSchedules' = executingSchedules \ {x.sched}
                 /\ x.id \in rejected'
                 /\ lastSettled'.id = x.id
                 /\ lastSettled'.renders = 0
                 /\ lastSettled'.sends = 0
                 /\ lastSettled'.releases = 1]_vars

\* of the two executions a tick launched, the one of s1 ended when its
\* createScheduleRun rejected, while the one of s2 has its Run running
C28_Witness ==
    \E t \in ticks : \E y \in TickExecs :
        /\ Settled
        /\ lastSettled.origin = "tick"
        /\ ~lastSettled.created
        /\ lastSettled.threw
        /\ lastSettled.id \in t.launched
        /\ RunOf(lastSettled.id) = {}
        /\ lastSettled.sched \notin executingSchedules
        /\ y.id \in t.launched
        /\ \E r \in RunOf(y.id) : r.status = "running"

\* C29: when no POST or PATCH handler is in progress, every row of
\* report_schedules has at least one recipient
C29_SchedulesHaveRecipients ==
    requests = {} =>
        \A s \in routeSchedules : Len(scheduleRecipients[s]) >= 1

\* C30: at most one cron task is active, the one cronJob holds, and none
\* when cronJob is null; start() with a task running schedules no other,
\* start() without one schedules exactly one, stop() leaves none
C30_OneCronJob ==
    [][/\ Cardinality(jobs') <= 1
       /\ jobs' = IF cronJob' = 0 THEN {} ELSE {cronJob'}
       /\ (starts' # starts /\ jobs # {}) => (jobs' = jobs /\ nJobs' = nJobs)
       /\ (starts' # starts /\ jobs = {}) =>
             (Cardinality(jobs') = 1 /\ nJobs' = nJobs + 1)
       /\ (stops' # stops) => jobs' = {}]_vars

\* start, start again, stop, start: the second task is the only one active
C30_Witness ==
    /\ starts = 3
    /\ stops = 1
    /\ nJobs = 2
    /\ jobs = {2}
    /\ cronJob = 2

====
